---- MODULE Spec2Model ----
(***************************************************************************)
(* SafeStep live session (App component): startLiveSession, the callbacks  *)
(* it hands to ai.live.connect (onopen, onmessage, onerror, onclose), the  *)
(* two capture callbacks started by onopen (processor.onaudioprocess and   *)
(* the setInterval callback) and the onended callback of every playback    *)
(* source.                                                                 *)
(*                                                                         *)
(* JavaScript runs each callback to completion up to its next await, so    *)
(* every action below is one such run.  The host (browser, SDK, server)    *)
(* decides when callbacks fire and how far the audio clock has advanced;   *)
(* these are the nondeterministic choices of the model.                    *)
(***************************************************************************)
EXTENDS Integers, Sequences, FiniteSets

\* ---- bounds of the model ------------------------------------------------
MaxTime   == 2   \* the device clock (ctx.currentTime) runs over 0..MaxTime
MaxDur    == 2   \* a decoded buffer is short (1 clock unit) or long (MaxDur)
MaxMsgs   == 2   \* inbound messages delivered to onmessage
MaxChunks == 2   \* capture callbacks fired, per modality
BlockLen    == 2   \* samples in one capture block (the code asks for 4096)
SampleSteps == 1   \* a sample is k / SampleSteps, k in -SampleSteps..SampleSteps
LevelSteps  == 100 \* the loudness level is kept in units of 1 / LevelSteps

\* ---- constants of the program ---------------------------------------------
Scale == 32768     \* int16[i] = inputData[i] * 32768

\* ---- status strings shown to the user (setLastResponse) -----------------
MsgInitial    == "Tap to start SafeStep."
MsgConnecting == "Connecting to AI Brain..."
MsgLive       == "SafeStep Live. Say 'Help' or ask what's in front of you."
MsgLost       == "Connection lost. Please restart."
MsgFailed     == "Failed to start mic/camera."

VARIABLES
  \* React state
  hasInteracted, isLive, lastResponse, isThinking,
  \* refs
  inputAudioCtxRef, outputAudioCtxRef, sessionRef, nextStartTimeRef, sourcesRef,
  \* startLiveSession: position of the one async invocation, and its locals
  pc, micStream, videoStream, sessionPromise,
  \* host: transport, device clock, audio nodes
  ws, wsOpened, currentTime, nodes,
  \* onopen: installed capture callbacks
  processors, timers,
  \* onmessage: invocations suspended at `await decodeAudioData`, oldest first
  pending, msgCount,
  \* uplink: callbacks registered with sessionPromise.then, and the calls of
  \* sendRealtimeInput made so far
  thenQueue, sent, audioProduced, videoProduced,
  \* the setInterval callback: firings so far, and which of them found the
  \* video or canvas element missing
  videoTicks, skippedTicks,
  \* onaudioprocess: the block it was last called with (numerators of the
  \* samples), the level it published with setMicLevel (in 1 / LevelSteps)
  \* and the Int16Array it filled
  inputData, micLevel, int16,
  \* observation only (never read by an action's guard or effect):
  \*   scheduled       the calls of source.start, in order: the unit's message,
  \*                   start and duration, the clock its handler read on entry
  \*                   (read) and the clock at the call (at)
  \*   lastArrival     the clock read by the latest audio handler entered
  \*                   since the last source.start (0: none)
  \*   interrupts      interruptions handled so far
  \*   maxInterruptId  the latest-received message whose interruption was handled
  \*   thrown          "none", or how the worst exception that left onmessage
  \*                   so far went: "plain", or "signals" when the message also
  \*                   carried interrupted or turnComplete, which were skipped
  \*   clockIfResetToNow  the playback clock as it would stand had every
  \*                   interruption reset it to ctx.currentTime instead of 0
  scheduled, lastArrival, interrupts, maxInterruptId, thrown,
  clockIfResetToNow, startCalls, ctxCount, gumCalls, connects, failure

vars == <<hasInteracted, isLive, lastResponse, isThinking,
          inputAudioCtxRef, outputAudioCtxRef, sessionRef, nextStartTimeRef,
          sourcesRef, pc, micStream, videoStream, sessionPromise,
          ws, wsOpened, currentTime, nodes, processors, timers, pending, msgCount,
          thenQueue, sent, audioProduced, videoProduced, videoTicks,
          skippedTicks, inputData, micLevel, int16, scheduled, lastArrival, interrupts, maxInterruptId, thrown,
          clockIfResetToNow, startCalls, ctxCount, gumCalls, connects,
          failure>>

uiVars     == <<hasInteracted, isLive, lastResponse>>
startVars  == <<inputAudioCtxRef, outputAudioCtxRef, sessionRef, pc, micStream,
                videoStream, sessionPromise, startCalls, ctxCount, gumCalls,
                connects, failure>>
playVars   == <<nextStartTimeRef, sourcesRef, nodes, pending, msgCount,
                scheduled, lastArrival, interrupts, maxInterruptId, thrown,
                clockIfResetToNow, isThinking>>
uplinkVars == <<thenQueue, sent, audioProduced, videoProduced, videoTicks,
                skippedTicks, inputData, micLevel, int16>>
pipeVars   == <<processors, timers>>

Max(a, b) == IF a >= b THEN a ELSE b

MsgIds == 1..MaxMsgs

NoNode == [st |-> "none", start |-> 0, dur |-> 0]

\* An inbound LiveServerMessage, reduced to what onmessage reads:
\*   audio: "none"      no inlineData in parts[0]
\*          "ok"        base64 PCM that decodes to a buffer of `dur` units,
\*                      short or long
\*          "badBase64" atob throws inside decode()
\*          "badPcm"    decodeAudioData throws (odd byte length, no frame)
Messages ==
  { [audio |-> a, dur |-> d, interrupted |-> i, turnComplete |-> t] :
      a \in {"none", "ok", "badBase64", "badPcm"}, d \in {0, 1, MaxDur},
      i \in BOOLEAN, t \in BOOLEAN }

ValidMessage(m) == (m.audio = "ok") <=> (m.dur > 0)

\* The lifecycle state of the spec, read off the component's state: the code
\* keeps isLive and the status line, nothing else.
SessionState ==
  IF isLive THEN "Open"
  ELSE IF lastResponse \in {MsgLost, MsgFailed} THEN "Error"
  ELSE IF lastResponse = MsgLive THEN "Closed"
  ELSE IF lastResponse = MsgConnecting THEN "Connecting"
  ELSE "Idle"

Init ==
  /\ hasInteracted = FALSE
  /\ isLive = FALSE
  /\ lastResponse = MsgInitial
  /\ isThinking = FALSE
  /\ inputAudioCtxRef = 0
  /\ outputAudioCtxRef = 0
  /\ sessionRef = 0
  /\ nextStartTimeRef = 0
  /\ sourcesRef = {}
  /\ pc = "idle"
  /\ micStream = FALSE
  /\ videoStream = FALSE
  /\ sessionPromise = "none"
  /\ ws = "none"
  /\ wsOpened = FALSE
  /\ currentTime = 0
  /\ nodes = [s \in MsgIds |-> NoNode]
  /\ processors = 0
  /\ timers = 0
  /\ pending = <<>>
  /\ msgCount = 0
  /\ thenQueue = <<>>
  /\ sent = <<>>
  /\ audioProduced = 0
  /\ videoProduced = 0
  /\ videoTicks = 0
  /\ skippedTicks = {}
  /\ inputData = <<>>
  /\ micLevel = 0
  /\ int16 = <<>>
  /\ scheduled = <<>>
  /\ lastArrival = 0
  /\ interrupts = 0
  /\ maxInterruptId = 0
  /\ thrown = "none"
  /\ clockIfResetToNow = 0
  /\ startCalls = 0
  /\ ctxCount = 0
  /\ gumCalls = 0
  /\ connects = 0
  /\ failure = "none"

\* A callback that the event loop runs as a task of its own (a DOM event, a
\* timer, a transport event, the settling of a device request) starts only
\* when no continuation is waiting: `await decodeAudioData(...)` waits on a
\* promise that is already settled, so the rest of onmessage is a microtask
\* and runs before the event loop takes its next task.
TaskBoundary == pending = <<>>

\* ---- session start ------------------------------------------------------

\* startLiveSession up to its first await (the microphone request).  A new
\* AudioContext starts its clock at 0.
startLiveSession ==
  /\ lastResponse' = MsgConnecting
  /\ inputAudioCtxRef' = ctxCount + 1
  /\ outputAudioCtxRef' = ctxCount + 2
  /\ ctxCount' = ctxCount + 2
  /\ currentTime' = 0
  /\ startCalls' = startCalls + 1
  /\ gumCalls' = gumCalls + 1
  /\ pc' = "awaitMic"
  /\ UNCHANGED <<isLive, sessionRef, micStream, videoStream, sessionPromise,
                 connects, failure, ws, wsOpened>>
  /\ UNCHANGED <<playVars, uplinkVars, pipeVars>>

\* Variant of handleInteraction whose overlay stays on screen: every tap
\* starts a session.
handleInteraction_overlayStays ==
  /\ TaskBoundary
  /\ startCalls < 2
  /\ hasInteracted' = TRUE
  /\ startLiveSession

\* The overlay that carries onClick={handleInteraction} is rendered only
\* while hasInteracted is false.
handleInteraction ==
  /\ TaskBoundary
  /\ ~hasInteracted
  /\ hasInteracted' = TRUE
  /\ startLiveSession

\* Variant of the catch block that only logs: the status line keeps saying
\* that the app is connecting.
catchBlock_logOnly(why) ==
  /\ UNCHANGED lastResponse
  /\ pc' = "caught"
  /\ failure' = why

\* The catch block of startLiveSession.
catchBlock(why) ==
  /\ lastResponse' = MsgFailed
  /\ pc' = "caught"
  /\ failure' = why

\* getUserMedia({audio}) settles; on success the camera is requested.
afterMicrophone(granted) ==
  /\ TaskBoundary
  /\ pc = "awaitMic"
  /\ IF granted
       THEN /\ micStream' = TRUE
            /\ gumCalls' = gumCalls + 1
            /\ pc' = "awaitCam"
            /\ UNCHANGED <<lastResponse, failure>>
       ELSE /\ catchBlock("mic")
            /\ UNCHANGED <<micStream, gumCalls>>
  /\ UNCHANGED <<hasInteracted, isLive, inputAudioCtxRef, outputAudioCtxRef,
                 sessionRef, videoStream, sessionPromise, startCalls, ctxCount,
                 connects, ws, wsOpened, currentTime>>
  /\ UNCHANGED <<playVars, uplinkVars, pipeVars>>

\* Variant of afterCamera that installs the capture callbacks right after
\* calling connect instead of leaving it to onopen.
afterCamera_capturesEarly(granted) ==
  /\ TaskBoundary
  /\ pc = "awaitCam"
  /\ IF granted
       THEN /\ videoStream' = TRUE
            /\ sessionPromise' = "pending"
            /\ ws' = "connecting"
            /\ connects' = connects + 1
            /\ pc' = "awaitSession"
            /\ processors' = processors + 1
            /\ timers' = timers + 1
            /\ UNCHANGED <<lastResponse, failure>>
       ELSE /\ lastResponse' = MsgFailed
            /\ pc' = "caught"
            /\ failure' = "camera"
            /\ UNCHANGED <<videoStream, sessionPromise, ws, connects,
                           processors, timers>>
  /\ UNCHANGED <<hasInteracted, isLive, inputAudioCtxRef, outputAudioCtxRef,
                 sessionRef, micStream, startCalls, ctxCount, gumCalls,
                 wsOpened, currentTime>>
  /\ UNCHANGED <<playVars, uplinkVars>>

\* getUserMedia({video}) settles; on success ai.live.connect is called and
\* startLiveSession suspends at `await sessionPromise`.
afterCamera(granted) ==
  /\ TaskBoundary
  /\ pc = "awaitCam"
  /\ IF granted
       THEN /\ videoStream' = TRUE
            /\ sessionPromise' = "pending"
            /\ ws' = "connecting"
            /\ connects' = connects + 1
            /\ pc' = "awaitSession"
            /\ UNCHANGED <<lastResponse, failure>>
       ELSE /\ catchBlock("camera")
            /\ UNCHANGED <<videoStream, sessionPromise, ws, connects>>
  /\ UNCHANGED <<hasInteracted, isLive, inputAudioCtxRef, outputAudioCtxRef,
                 sessionRef, micStream, startCalls, ctxCount, gumCalls,
                 wsOpened, currentTime>>
  /\ UNCHANGED <<playVars, uplinkVars, pipeVars>>

\* sessionPromise settles: it resolves once the transport has opened, and
\* rejects only if it never opened.
afterConnect(ok) ==
  /\ TaskBoundary
  /\ pc = "awaitSession"
  /\ sessionPromise = "pending"
  /\ IF ok
       THEN /\ wsOpened
            /\ sessionPromise' = "resolved"
            /\ sessionRef' = 1
            /\ pc' = "done"
            /\ UNCHANGED <<lastResponse, failure, ws>>
       ELSE /\ ~wsOpened
            /\ sessionPromise' = "rejected"
            /\ ws' = IF ws = "connecting" THEN "none" ELSE ws
            /\ catchBlock("connect")
            /\ UNCHANGED sessionRef
  /\ UNCHANGED <<hasInteracted, isLive, inputAudioCtxRef, outputAudioCtxRef,
                 micStream, videoStream, startCalls, ctxCount, gumCalls,
                 connects, wsOpened, currentTime>>
  /\ UNCHANGED <<playVars, uplinkVars, pipeVars>>

\* ---- transport callbacks ------------------------------------------------

\* onopen: marks the session live and installs both capture callbacks.
onopen ==
  /\ TaskBoundary
  /\ ws = "connecting"
  /\ ws' = "open"
  /\ wsOpened' = TRUE
  /\ isLive' = TRUE
  /\ lastResponse' = MsgLive
  /\ processors' = processors + 1
  /\ timers' = timers + 1
  /\ UNCHANGED <<hasInteracted, currentTime>>
  /\ UNCHANGED <<startVars, playVars, uplinkVars>>

onerror ==
  /\ TaskBoundary
  /\ ws \in {"connecting", "open"}
  /\ ws' = "errored"
  /\ lastResponse' = MsgLost
  /\ isLive' = FALSE
  /\ failure' = IF wsOpened THEN failure ELSE "connect"
  /\ UNCHANGED <<hasInteracted, wsOpened, currentTime>>
  /\ UNCHANGED <<inputAudioCtxRef, outputAudioCtxRef, sessionRef, pc, micStream,
                 videoStream, sessionPromise, startCalls, ctxCount, gumCalls,
                 connects>>
  /\ UNCHANGED <<playVars, uplinkVars, pipeVars>>

onclose ==
  /\ TaskBoundary
  /\ ws \in {"open", "errored"}
  /\ ws' = "closed"
  /\ isLive' = FALSE
  /\ UNCHANGED <<hasInteracted, lastResponse, wsOpened, currentTime>>
  /\ UNCHANGED <<startVars, playVars, uplinkVars, pipeVars>>

\* The audio hardware advances ctx.currentTime of the output context.
Tick ==
  /\ outputAudioCtxRef # 0
  /\ currentTime < MaxTime
  /\ currentTime' = currentTime + 1
  /\ UNCHANGED <<uiVars, ws, wsOpened>>
  /\ UNCHANGED <<startVars, playVars, uplinkVars, pipeVars>>

\* ---- downlink: onmessage ------------------------------------------------

\* nextStartTimeRef.current = Math.max(nextStartTimeRef.current, ctx.currentTime)
raiseClock(next, now) == Max(next, now)

\* Variant of advanceClock that leaves the clock where it was (the += line
\* lost): the next unit would start on top of this one.
advanceClock_lost(next, dur) == next

\* nextStartTimeRef.current += buffer.duration
advanceClock(next, dur) == next + dur

\* Variant of interruptedBranch without sourcesRef.current.clear(): the
\* sources are stopped but stay in the set.
interruptedBranch_noClear(id, set, nd) ==
  /\ nodes' = [s \in MsgIds |->
                 IF s \in set /\ nd[s].st = "started"
                   THEN [nd[s] EXCEPT !.st = "stopped"] ELSE nd[s]]
  /\ sourcesRef' = set
  /\ nextStartTimeRef' = 0
  /\ interrupts' = interrupts + 1
  /\ maxInterruptId' = Max(maxInterruptId, id)
  /\ clockIfResetToNow' = currentTime

\* Variant of interruptedBranch that stops every source ever created, not
\* those of the set: a source that has ended is stopped once more.
interruptedBranch_stopsAll(id, set, nd) ==
  /\ nodes' = [s \in MsgIds |->
                 IF nd[s].st \in {"started", "ended"}
                   THEN [nd[s] EXCEPT !.st = "stopped"] ELSE nd[s]]
  /\ sourcesRef' = {}
  /\ nextStartTimeRef' = 0
  /\ interrupts' = interrupts + 1
  /\ maxInterruptId' = Max(maxInterruptId, id)
  /\ clockIfResetToNow' = currentTime

\* if (msg.serverContent?.interrupted): stop every source of the set, clear
\* the set, reset the playback clock.  `set` and `nd` are the set and the
\* nodes as the first part of the handler left them.
interruptedBranch(id, set, nd) ==
  /\ nodes' = [s \in MsgIds |->
                 IF s \in set /\ nd[s].st = "started"
                   THEN [nd[s] EXCEPT !.st = "stopped"] ELSE nd[s]]
  /\ sourcesRef' = {}
  /\ nextStartTimeRef' = 0
  /\ interrupts' = interrupts + 1
  /\ maxInterruptId' = Max(maxInterruptId, id)
  /\ clockIfResetToNow' = currentTime

\* The two trailing ifs of onmessage (interrupted, turnComplete), run after
\* the audio branch; `next` is the playback clock the audio branch left.
\* (`alt`: the same for clockIfResetToNow.)
signals(id, m, set, nd, next, alt) ==
  /\ IF m.interrupted
       THEN interruptedBranch(id, set, nd)
       ELSE /\ nodes' = nd
            /\ sourcesRef' = set
            /\ nextStartTimeRef' = next
            /\ clockIfResetToNow' = alt
            /\ UNCHANGED <<interrupts, maxInterruptId>>
  /\ isThinking' = IF m.turnComplete THEN FALSE ELSE isThinking

\* An exception thrown by decode() or decodeAudioData() is caught nowhere in
\* onmessage: it ends the handler, whose promise rejects, before the two
\* trailing ifs are reached.
throws(m) ==
  thrown' = IF m.interrupted \/ m.turnComplete THEN "signals"
            ELSE IF thrown = "none" THEN "plain" ELSE thrown

\* Variant of onmessage that treats an interruption as the end of the
\* session: it also calls setIsLive(false).
onmessage_interruptCloses(m) ==
  /\ ws = "open"
  /\ msgCount < MaxMsgs
  /\ ValidMessage(m)
  /\ msgCount' = msgCount + 1
  /\ LET id == msgCount + 1 IN
     IF m.audio # "none" /\ outputAudioCtxRef # 0
       THEN /\ nextStartTimeRef' = raiseClock(nextStartTimeRef, currentTime)
            /\ clockIfResetToNow' = raiseClock(clockIfResetToNow, currentTime)
            /\ lastArrival' = currentTime
            /\ IF m.audio = "badBase64"
                 THEN throws(m) /\ UNCHANGED pending
                 ELSE /\ pending' = Append(pending,
                                     [id |-> id, msg |-> m, now |-> currentTime])
                      /\ UNCHANGED thrown
            /\ UNCHANGED <<sourcesRef, nodes, interrupts, maxInterruptId,
                           isThinking>>
       ELSE /\ signals(id, m, sourcesRef, nodes, nextStartTimeRef,
                       clockIfResetToNow)
            /\ UNCHANGED <<pending, lastArrival, thrown>>
  /\ isLive' = IF m.interrupted /\ m.audio = "none" THEN FALSE ELSE isLive
  /\ UNCHANGED <<hasInteracted, lastResponse, ws, wsOpened, currentTime,
                 scheduled>>
  /\ UNCHANGED <<startVars, uplinkVars, pipeVars>>

\* onmessage from its call to its first await, or to its end when the
\* message carries no audio.  decode() runs before the await, so bad base64
\* throws here, after the clock has been raised, and ends the handler.
onmessage(m) ==
  /\ ws = "open"
  /\ msgCount < MaxMsgs
  /\ ValidMessage(m)
  /\ msgCount' = msgCount + 1
  /\ LET id == msgCount + 1 IN
     IF m.audio # "none" /\ outputAudioCtxRef # 0
       THEN /\ nextStartTimeRef' = raiseClock(nextStartTimeRef, currentTime)
            /\ clockIfResetToNow' = raiseClock(clockIfResetToNow, currentTime)
            /\ lastArrival' = currentTime
            /\ IF m.audio = "badBase64"
                 THEN throws(m) /\ UNCHANGED pending
                 ELSE /\ pending' = Append(pending,
                                     [id |-> id, msg |-> m, now |-> currentTime])
                      /\ UNCHANGED thrown
            /\ UNCHANGED <<sourcesRef, nodes, interrupts, maxInterruptId,
                           isThinking>>
       ELSE /\ signals(id, m, sourcesRef, nodes, nextStartTimeRef,
                       clockIfResetToNow)
            /\ UNCHANGED <<pending, lastArrival, thrown>>
  /\ UNCHANGED <<uiVars, ws, wsOpened, currentTime, scheduled>>
  /\ UNCHANGED <<startVars, uplinkVars, pipeVars>>

\* onmessage after `await decodeAudioData`, for the k-th suspended handler.
\* decodeAudioData has no await of its own, so its promise is settled when
\* it returns and the suspended handlers continue in the order in which
\* they suspended (onmessageResume below).  A rejected
\* decode ends the handler; otherwise the buffer is started at the playback
\* clock, the clock advances by its duration, the source joins the set, and
\* the two signals are handled.
resume(k) ==
  /\ LET h  == pending[k]
         id == h.id
         m  == h.msg
     IN
     /\ pending' = SubSeq(pending, 1, k - 1) \o
                     SubSeq(pending, k + 1, Len(pending))
     /\ IF m.audio = "badPcm"
          THEN /\ throws(m)
               /\ UNCHANGED <<nextStartTimeRef, sourcesRef, nodes, scheduled,
                              lastArrival, interrupts, maxInterruptId,
                              clockIfResetToNow, isThinking>>
          ELSE /\ UNCHANGED thrown
               /\ scheduled' = Append(scheduled,
                      [id |-> id, start |-> nextStartTimeRef, dur |-> m.dur,
                       ifResetToNow |-> clockIfResetToNow,
                       read |-> h.now, at |-> currentTime,
                       arrival |-> lastArrival, after |-> interrupts])
               /\ lastArrival' = 0
               /\ signals(id, m, sourcesRef \cup {id},
                          [nodes EXCEPT ![id] =
                             [st |-> "started", start |-> nextStartTimeRef,
                              dur |-> m.dur]],
                          advanceClock(nextStartTimeRef, m.dur),
                          advanceClock(clockIfResetToNow, m.dur))
  /\ UNCHANGED <<uiVars, ws, wsOpened, currentTime, msgCount>>
  /\ UNCHANGED <<startVars, uplinkVars, pipeVars>>

\* Variant of onmessageResume in which the handler that suspended last
\* continues first (as if decoding finished out of order).
onmessageResume_newestFirst ==
  /\ pending # <<>>
  /\ resume(Len(pending))

\* The oldest suspended handler continues.
onmessageResume ==
  /\ pending # <<>>
  /\ resume(1)

\* Variant of onended that forgets sourcesRef.current.delete(source).
onended_noDelete(s) ==
  /\ TaskBoundary
  /\ \/ nodes[s].st = "stopped"
     \/ nodes[s].st = "started" /\ currentTime >= nodes[s].start + nodes[s].dur
  /\ nodes' = [nodes EXCEPT ![s].st = "ended"]
  /\ UNCHANGED <<uiVars, ws, wsOpened, currentTime, nextStartTimeRef, pending,
                 msgCount, scheduled, lastArrival, interrupts, maxInterruptId,
                 thrown, clockIfResetToNow, isThinking, sourcesRef>>
  /\ UNCHANGED <<startVars, uplinkVars, pipeVars>>

\* source.onended: fired by the host when the buffer has played to its end
\* or after stop(); removes the source from the set.
onended(s) ==
  /\ TaskBoundary
  /\ \/ nodes[s].st = "stopped"
     \/ nodes[s].st = "started" /\ currentTime >= nodes[s].start + nodes[s].dur
  /\ nodes' = [nodes EXCEPT ![s].st = "ended"]
  /\ sourcesRef' = sourcesRef \ {s}
  /\ UNCHANGED <<uiVars, ws, wsOpened, currentTime, nextStartTimeRef, pending,
                 msgCount, scheduled, lastArrival, interrupts, maxInterruptId,
                 thrown, clockIfResetToNow, isThinking>>
  /\ UNCHANGED <<startVars, uplinkVars, pipeVars>>

\* ---- uplink: capture callbacks ------------------------------------------

\* sessionPromise.then(s => s.sendRealtimeInput(chunk)): the callback is
\* queued behind those registered before it.
thenSend(chunk) == thenQueue' = Append(thenQueue, chunk)

Chunk(mod, n, tick) ==
  [mod |-> mod, n |-> n, tick |-> tick, open |-> SessionState = "Open",
   early |-> sessionPromise = "pending"]

\* A block of samples in [-1, 1], as the numerators k of k / SampleSteps.
Blocks == [1..BlockLen -> -SampleSteps..SampleSteps]

\* The block of a silent microphone.
SilentBlocks == {[i \in 1..BlockLen |-> 0]}

RECURSIVE SumSquares(_, _)
SumSquares(block, n) ==
  IF n = 0 THEN 0 ELSE SumSquares(block, n - 1) + block[n] * block[n]

\* Math.sqrt on a value given in units of 1 / (LevelSteps * LevelSteps): the
\* root in units of 1 / LevelSteps, rounded down.  No value met is above
\* BlockLen * LevelSteps * LevelSteps (the sum of BlockLen full-scale squares).
Sqrt(v) ==
  CHOOSE r \in 0..(BlockLen * LevelSteps) : r * r <= v /\ (r + 1) * (r + 1) > v

\* Variant of Loudness that takes the root of the sum, not of the mean.
Loudness_noMean(block) ==
  Sqrt((SumSquares(block, Len(block)) * LevelSteps * LevelSteps)
         \div (SampleSteps * SampleSteps))

\* Math.sqrt(sum / inputData.length), sum the sum of the squared samples.
Loudness(block) ==
  Sqrt((SumSquares(block, Len(block)) * LevelSteps * LevelSteps)
         \div (Len(block) * SampleSteps * SampleSteps))

\* Division that drops the fraction, as the conversion to an integer does.
TruncDiv(a, b) == IF a >= 0 THEN a \div b ELSE -((-a) \div b)

\* Storing a number in an Int16Array: the integer part, modulo 2^16, read
\* as a signed 16-bit value.
Wrap16(v) == ((v + Scale) % (2 * Scale)) - Scale

\* int16[i] = inputData[i] * 32768 for the sample k / SampleSteps.
ToInt16(k) == Wrap16(TruncDiv(k * Scale, SampleSteps))

\* processor.onaudioprocess: one block of microphone samples.
onaudioprocess(block) ==
  /\ TaskBoundary
  /\ processors > 0
  /\ audioProduced < MaxChunks
  /\ inputData' = block
  /\ micLevel' = Loudness(block)
  /\ int16' = [i \in 1..Len(block) |-> ToInt16(block[i])]
  /\ audioProduced' = audioProduced + 1
  /\ thenSend(Chunk("audio", audioProduced + 1, audioProduced + 1))
  /\ UNCHANGED <<sent, videoProduced, videoTicks, skippedTicks>>
  /\ UNCHANGED <<uiVars, ws, wsOpened, currentTime>>
  /\ UNCHANGED <<startVars, playVars, pipeVars>>

\* The setInterval callback: one frame if both elements are there.
\* Variant of setIntervalCallback that gives up on a missing element: the
\* firing that skips the capture also clears the timer.
setIntervalCallback_stopsOnSkip(ready) ==
  /\ TaskBoundary
  /\ timers > 0
  /\ videoTicks < MaxChunks
  /\ videoTicks' = videoTicks + 1
  /\ IF ready
       THEN /\ videoProduced' = videoProduced + 1
            /\ thenSend(Chunk("video", videoProduced + 1, videoTicks + 1))
            /\ UNCHANGED <<skippedTicks, timers>>
       ELSE /\ skippedTicks' = skippedTicks \cup {videoTicks + 1}
            /\ timers' = timers - 1
            /\ UNCHANGED <<videoProduced, thenQueue>>
  /\ UNCHANGED <<sent, audioProduced, processors, inputData, micLevel, int16>>
  /\ UNCHANGED <<uiVars, ws, wsOpened, currentTime>>
  /\ UNCHANGED <<startVars, playVars>>

\* The setInterval callback, fired by the host once per period of
\* 1000 / FRAME_RATE ms: one frame if both elements are there, nothing
\* otherwise.  The timer stays installed either way.
setIntervalCallback(ready) ==
  /\ TaskBoundary
  /\ timers > 0
  /\ videoTicks < MaxChunks
  /\ videoTicks' = videoTicks + 1
  /\ IF ready
       THEN /\ videoProduced' = videoProduced + 1
            /\ thenSend(Chunk("video", videoProduced + 1, videoTicks + 1))
            /\ UNCHANGED skippedTicks
       ELSE /\ skippedTicks' = skippedTicks \cup {videoTicks + 1}
            /\ UNCHANGED <<videoProduced, thenQueue>>
  /\ UNCHANGED <<sent, audioProduced, inputData, micLevel, int16>>
  /\ UNCHANGED <<uiVars, ws, wsOpened, currentTime>>
  /\ UNCHANGED <<startVars, playVars, pipeVars>>

\* Variant of thenCallback that runs the newest registered callback first.
thenCallback_newestFirst ==
  /\ sessionPromise = "resolved"
  /\ thenQueue # <<>>
  /\ sent' = Append(sent, thenQueue[Len(thenQueue)])
  /\ thenQueue' = SubSeq(thenQueue, 1, Len(thenQueue) - 1)
  /\ UNCHANGED <<audioProduced, videoProduced, videoTicks, skippedTicks,
                 inputData, micLevel, int16>>
  /\ UNCHANGED <<uiVars, ws, wsOpened, currentTime>>
  /\ UNCHANGED <<startVars, playVars, pipeVars>>

\* A callback registered with sessionPromise.then runs once the promise is
\* resolved, oldest first, and calls sendRealtimeInput.
thenCallback ==
  /\ sessionPromise = "resolved"
  /\ thenQueue # <<>>
  /\ sent' = Append(sent, Head(thenQueue))
  /\ thenQueue' = Tail(thenQueue)
  /\ UNCHANGED <<audioProduced, videoProduced, videoTicks, skippedTicks,
                 inputData, micLevel, int16>>
  /\ UNCHANGED <<uiVars, ws, wsOpened, currentTime>>
  /\ UNCHANGED <<startVars, playVars, pipeVars>>

\* ---- specification --------------------------------------------------------

\* Session start and the transport's callbacks.
Lifecycle ==
  \/ handleInteraction
  \/ \E granted \in BOOLEAN : afterMicrophone(granted)
  \/ \E granted \in BOOLEAN : afterCamera(granted)
  \/ \E ok \in BOOLEAN : afterConnect(ok)
  \/ onopen
  \/ onerror
  \/ onclose

\* The downlink: inbound messages, playback, the device clock.
Playback ==
  \/ Tick
  \/ \E m \in Messages : onmessage(m)
  \/ onmessageResume
  \/ \E s \in MsgIds : onended(s)

\* The uplink: the two capture callbacks and the sends they queue.
Uplink ==
  \/ \E block \in Blocks : onaudioprocess(block)
  \/ \E ready \in BOOLEAN : setIntervalCallback(ready)
  \/ thenCallback

Next == Lifecycle \/ Playback \/ Uplink

Spec == Init /\ [][Next]_vars

\* The uplink callbacks read and write none of the playback state and the
\* playback callbacks none of the uplink state, so each side is checked with
\* the other side's callbacks left out.
NextPlayback == Lifecycle \/ Playback

SpecPlayback == Init /\ [][NextPlayback]_vars

\* The order and the fate of the chunks sent do not depend on the samples
\* in them (the chunk is queued whatever the block holds), so the uplink is
\* checked with silent blocks, and the arithmetic of onaudioprocess with
\* every block but without the other uplink callbacks.
NextUplink ==
  \/ Lifecycle
  \/ \E block \in SilentBlocks : onaudioprocess(block)
  \/ \E ready \in BOOLEAN : setIntervalCallback(ready)
  \/ thenCallback

SpecUplink == Init /\ [][NextUplink]_vars

NextSamples ==
  \/ Lifecycle
  \/ \E block \in Blocks : onaudioprocess(block)

SpecSamples == Init /\ [][NextSamples]_vars

\* ---- properties -----------------------------------------------------------

\* Two consecutive calls of source.start with no interruption handled
\* between them.
Chained(i) ==
  /\ i \in 1..(Len(scheduled) - 1)
  /\ scheduled[i + 1].after = scheduled[i].after

\* A unit that was started and has neither been stopped nor played to its end.
Audible(s) ==
  /\ nodes[s].st = "started"
  /\ currentTime < nodes[s].start + nodes[s].dur

\* C1 as stated: with no interruption between them, chunk i+1 starts exactly
\* at chunk i's start plus chunk i's duration, whatever the device clock did
\* between the arrivals.
C1_GaplessAsStated ==
  \A i \in 1..(Len(scheduled) - 1) :
    Chained(i) => scheduled[i + 1].start = scheduled[i].start + scheduled[i].dur

\* C1 (amended): with no interruption between them, chunk i+1 starts at chunk
\* i's start plus chunk i's duration, or at the device clock that an audio
\* handler entered after chunk i was started has read, whichever is later; so
\* the two never overlap, and there is a gap only if the clock had run past
\* the end of chunk i.
C1_GaplessUnlessClockPassed ==
  \A i \in 1..(Len(scheduled) - 1) :
    Chained(i) =>
      scheduled[i + 1].start =
        Max(scheduled[i].start + scheduled[i].dur, scheduled[i + 1].arrival)

\* C1 witness: two chunks of one turn, the second one started later than the
\* end of the first because the clock had passed it.
C1_Witness ==
  \E i \in 1..(Len(scheduled) - 1) :
    /\ Chained(i)
    /\ scheduled[i + 1].start > scheduled[i].start + scheduled[i].dur

C5_ClosedIsSilent ==
  SessionState = "Closed" =>
    sourcesRef = {} /\ \A s \in MsgIds : ~Audible(s)

\* C6: after a transport error or close of a session that was open, no
\* capture callback produces a chunk any more.
C6_PipelinesStopped ==
  [][wsOpened /\ SessionState \in {"Closed", "Error"} =>
       audioProduced' = audioProduced /\ videoProduced' = videoProduced]_vars

\* C7: sendRealtimeInput is called only with chunks that were produced while
\* the session was Open.
C7_OnlyOpenChunksSent == \A i \in 1..Len(sent) : sent[i].open

\* C8: for two sent chunks of one modality, sendRealtimeInput was called in
\* the order of their production.
C8_UplinkOrder ==
  \A i, j \in 1..Len(sent) :
    i < j /\ sent[i].mod = sent[j].mod => sent[i].n < sent[j].n

\* C8 witness: two audio chunks produced before sessionPromise resolved have
\* both been sent.
C8_Witness ==
  \E i, j \in 1..Len(sent) :
    /\ i < j
    /\ sent[i].mod = "audio" /\ sent[j].mod = "audio"
    /\ sent[i].early /\ sent[j].early

\* C9: after a failed microphone request, camera request or connection the
\* session is in Error, not live, shows one of the two failure messages, has
\* started no pipeline, and nothing was requested again.
C9_FailedStart ==
  failure # "none" =>
    /\ SessionState = "Error"
    /\ ~isLive
    /\ lastResponse \in {MsgFailed, MsgLost}
    /\ processors = 0 /\ timers = 0
    /\ startCalls = 1
    /\ gumCalls = (IF failure = "mic" THEN 1 ELSE 2)
    /\ connects = (IF failure = "connect" THEN 1 ELSE 0)

\* C9 witness: the camera was refused after the microphone was granted.
C9_Witness ==
  /\ failure = "camera"
  /\ micStream
  /\ pc = "caught"

\* C10: the session becomes Connecting only from Idle and Open only from
\* Connecting; the audio processor and the video timer are installed by that
\* step to Open, once each, and by no other step.
C10_StartOrder ==
  [][/\ (SessionState' = "Connecting" /\ SessionState # "Connecting")
          => SessionState = "Idle"
     /\ (SessionState' = "Open" /\ SessionState # "Open")
          => /\ SessionState = "Connecting"
             /\ processors = 0 /\ timers = 0
             /\ processors' = 1 /\ timers' = 1
     /\ (processors' # processors \/ timers' # timers)
          => SessionState # "Open" /\ SessionState' = "Open"]_vars

\* C10 witness: the session is open with one processor and one timer.
C10_Witness ==
  /\ SessionState = "Open"
  /\ pc = "done"
  /\ processors = 1
  /\ timers = 1

\* C11: no exception of a decode leaves onmessage, and none costs a message
\* its interrupted or turnComplete signal.
C11_DecodeFailureAbsorbed == thrown = "none"

\* C12: every unit's start time is at or after the device clock at the
\* moment source.start is called.
C12_NeverStartsInPast ==
  \A i \in 1..Len(scheduled) : scheduled[i].start >= scheduled[i].at

\* C13: of two units started with no interruption handled between their
\* starts, the one started first belongs to the message received first, and
\* the later one starts no earlier than the first one ends.
C13_ReceiptOrder ==
  \A i, j \in 1..Len(scheduled) :
    i < j /\ scheduled[i].after = scheduled[j].after =>
      /\ scheduled[i].id < scheduled[j].id
      /\ scheduled[j].start >= scheduled[i].start + scheduled[i].dur

\* C13 witness: two units of one turn whose handlers overlapped: the second
\* message arrived (clock above 0) before the first unit was started, and
\* none arrived between the two starts.
C13_Witness ==
  /\ Len(scheduled) >= 2
  /\ scheduled[1].after = scheduled[2].after
  /\ scheduled[1].arrival > 0
  /\ scheduled[2].arrival = 0
  /\ scheduled[2].read > 0

\* C14: a step of onmessage (a message taken, or a suspended handler
\* continued) leaves the connection state alone: isLive, the session handle,
\* the status line, the transport, the start-up state and the capture side;
\* the thinking indicator is clear after it; and unless the step handles an
\* interruption or starts a unit, the playback set and its sources stay as
\* they are.
C14_SignalsKeepConnection ==
  [][(msgCount' # msgCount \/ pending' # pending) =>
       /\ UNCHANGED <<uiVars, startVars, ws, wsOpened, uplinkVars, pipeVars>>
       /\ isThinking' = FALSE
       /\ (interrupts' = interrupts /\ scheduled' = scheduled)
            => UNCHANGED <<sourcesRef, nodes>>]_vars

\* C14 witness: an interruption has been handled and the session is still
\* open with its handle.
C14_Witness ==
  /\ interrupts > 0
  /\ isLive
  /\ sessionRef = 1
  /\ ws = "open"

\* C15: the active set holds exactly the sources that were started and have
\* neither fired onended nor been stopped by an interruption.
C15_ActiveSetExact == sourcesRef = {s \in MsgIds : nodes[s].st = "started"}

\* C15 witness: onended has fired for a source that an interruption had
\* stopped before its end (the set had been cleared), while another source
\* is in the set or the set is empty.
C15_Witness ==
  \E s \in MsgIds :
    /\ nodes[s].st = "ended"
    /\ currentTime < nodes[s].start + nodes[s].dur
    /\ interrupts > 0
    /\ s \notin sourcesRef

\* C16: a step that handles an interruption without starting a unit, taken
\* with the set empty, stops no source and leaves the set empty; taken right
\* after an interruption (set empty, clock 0) it changes nothing of the
\* playback state.
C16_InterruptIdempotent ==
  [][(interrupts' # interrupts /\ scheduled' = scheduled /\ sourcesRef = {}) =>
       /\ nodes' = nodes
       /\ sourcesRef' = {}
       /\ nextStartTimeRef = 0 => nextStartTimeRef' = 0]_vars

\* C16 witness: two interruptions have been handled and no unit was ever
\* started, so both met an empty set.
C16_Witness ==
  /\ interrupts >= 2
  /\ scheduled = <<>>
  /\ sourcesRef = {}
  /\ nextStartTimeRef = 0

\* The video chunks handed to sessionPromise.then so far, sent or waiting.
VideoChunks ==
  SelectSeq(sent \o thenQueue, LAMBDA c : c.mod = "video")

\* C17: every firing of the timer that found both elements has emitted
\* exactly one video chunk and every firing that skipped the capture has
\* emitted none; while the session is Open the timer is installed, whatever
\* firings were skipped, so the following firings emit again.
C17_OneChunkPerTick ==
  /\ \A k \in 1..videoTicks :
       Cardinality({i \in 1..Len(VideoChunks) : VideoChunks[i].tick = k})
         = IF k \in skippedTicks THEN 0 ELSE 1
  /\ \A i \in 1..Len(VideoChunks) : VideoChunks[i].tick \in 1..videoTicks
  /\ SessionState = "Open" => timers = 1

\* C17 witness: with the session Open, a firing skipped the capture and the
\* firing after it emitted a chunk.
C17_Witness ==
  /\ SessionState = "Open"
  /\ \E k \in skippedTicks :
       \E i \in 1..Len(VideoChunks) :
         VideoChunks[i].tick = k + 1 /\ VideoChunks[i].open

\* C18: the level published by the audio capture callback lies in [0, 1]
\* for every block of samples in [-1, 1] and is exactly 0 for a block whose
\* samples are all zero.
C18_LoudnessRange ==
  inputData # <<>> =>
    /\ micLevel >= 0
    /\ micLevel <= LevelSteps
    /\ (\A i \in 1..Len(inputData) : inputData[i] = 0) => micLevel = 0

\* C18 witness: the callback has published the level of a full-scale
\* block, and that level is 1.
C18_Witness ==
  /\ inputData # <<>>
  /\ \A i \in 1..Len(inputData) :
       inputData[i] \in {SampleSteps, -SampleSteps}
  /\ micLevel = LevelSteps

\* The i-th started unit is the first one started after an interruption.
FirstAfterInterruption(i) ==
  /\ scheduled[i].after > 0
  /\ i = 1 \/ scheduled[i - 1].after < scheduled[i].after

Sign(v) == IF v > 0 THEN 1 ELSE IF v < 0 THEN -1 ELSE 0

\* C20: for every sample in [-1, 1], exactly 1.0 included, the value stored
\* in the Int16Array lies in [-32768, 32767] and has the sign of the sample.
C20_NoWrapAround ==
  \A i \in 1..Len(int16) :
    /\ int16[i] >= -Scale
    /\ int16[i] <= Scale - 1
    /\ Sign(int16[i]) = Sign(inputData[i])

====
